---- MODULE Spec2Model ----
(***************************************************************************)
(* State-machine model of the interaction code of Capsule:                 *)
(*   backend/src/services/vlogService.js  (toggleLike, toggleDislike,      *)
(*       addComment, deleteComment, recordView)                            *)
(*   the user controller (followUser, unfollowUser)                        *)
(* Every await of a handler is a suspension point, so a handler is a chain *)
(* of actions, one per store round trip.  The MongoDB collections hold the *)
(* committed state; a transaction reads the snapshot taken by its first    *)
(* operation, buffers its writes, and a write to a document that another   *)
(* open transaction has written, or that was changed after the snapshot,   *)
(* is refused with a write conflict.                                       *)
(***************************************************************************)
EXTENDS Integers, FiniteSets, Sequences, TLC

\* ------------------------------------------------------------- bounds
NumProcs == 2
MaxComments == 1
MaxCalls == 4
MaxCount == 2
MaxEmails == 2

Procs == 1..NumProcs
Vlogs == {"v1", "v2"}
MissingVlog == "v0"
VlogIds == Vlogs \cup {MissingVlog}
Users == {"u1", "u2"}
Kinds == {"like", "dislike"}
MissingUser == "u0"
FollowUsers == Users \cup {"u3"}
UserIds == FollowUsers \cup {MissingUser}
CommentIds == 1..MaxComments

VARIABLES
    vlogs,      \* Vlog collection: id -> [exists, likeCount, dislikeCount, commentCount, views]
    likes,      \* Like collection: <<vlog, user, type>> -> number of documents
    comments,   \* Comment collection: id -> NoComment or [vlog, user]
    redisKeys,  \* keys view:{vlogId}:{viewerId} that are set and not expired
    users,      \* User collection: id -> [exists, following, followers]
    pc,         \* per request: the await it is suspended at
    call,       \* per request: the handler and its arguments
    loc,        \* per request: the handler's local variables, and (incs) how
                \* many times it has incremented a view count
    txn,        \* per request: its session's transaction
    res,        \* per request: what the handler returned or threw
    applied,    \* history: per vlog, the sum of the $inc of every committed toggle
    followed,   \* history: per user, committed follows minus committed unfollows
    mail,       \* emailQueue.js: emailQueue, queueReady, the jobs added and the emails sent
    seq         \* history of one run of toggleLike calls by one user on one vlog

store == <<vlogs, likes, comments, redisKeys, users>>
procs == <<pc, call, loc, txn, res>>
vars == <<vlogs, likes, comments, redisKeys, users, pc, call, loc, txn, res, applied,
          followed, mail, seq>>

\* ------------------------------------------------------------- documents
VlogDoc(v) == <<"vlog", v>>
LikeDoc(v, u, k) == <<"like", v, u, k>>
UserDoc(u) == <<"user", u>>

Opposite(k) == IF k = "like" THEN "dislike" ELSE "like"

NoText == [len |-> 0, blank |-> TRUE]
NoEmail == [to |-> "none", critical |-> FALSE]
NoCall == [op |-> "none", v |-> MissingVlog, u |-> "u1", k |-> "like",
           c |-> 0, isAdmin |-> FALSE, userId |-> MissingUser, t |-> NoText,
           emailData |-> NoEmail, priority |-> 0]
NoLoc == [existingLike |-> FALSE, existingDislike |-> FALSE, snapVlog |-> FALSE,
          commentUser |-> "none", wasSet |-> "none", incs |-> 0, comment |-> 0,
          bookmarks |-> <<>>]
NoTxn == [state |-> "none", stale |-> {}, wset |-> {}]
NoRes == [err |-> "none", likeCount |-> 0, dislikeCount |-> 0,
          isLiked |-> FALSE, isDisliked |-> FALSE,
          incremented |-> FALSE, views |-> 0, degraded |-> FALSE,
          isFollowing |-> FALSE,
          raised |-> "none", jobId |-> 0, emailId |-> 0, queued |-> FALSE,
          fallback |-> FALSE]
NoComment == [exists |-> FALSE, vlog |-> MissingVlog, user |-> "none"]
\* A deleted comment: its _id is never given to another comment.
DeletedComment == [exists |-> FALSE, vlog |-> MissingVlog, user |-> "deleted"]

\* An error thrown to the caller; raised is the error first raised in the call.
Thrown(e) == [NoRes EXCEPT !.err = e, !.raised = e]
Rethrown(e, first) == [NoRes EXCEPT !.err = e, !.raised = first]

NewVlog == [exists |-> TRUE, likeCount |-> 0, dislikeCount |-> 0,
            commentCount |-> 0, views |-> 0]

\* ------------------------------------------------------------- transactions
\* A write inside a transaction is refused when the document was changed by a
\* commit after the transaction's snapshot, or is written by another open one.
WriteConflictOff(p, d) == FALSE

WriteConflict(p, d) ==
    \/ d \in txn[p].stale
    \/ \E q \in Procs \ {p} : d \in txn[q].wset

\* session.startTransaction(): the snapshot is taken by the first operation.
StartTransaction == [state |-> "active", stale |-> {}, wset |-> {}]

\* The documents in ds were changed by p (a commit, or a write outside a
\* transaction): they are stale for every other open transaction.
MarkStale(p, ds) ==
    [q \in Procs |->
        IF q # p /\ txn[q].state = "active"
        THEN [txn[q] EXCEPT !.stale = @ \cup ds]
        ELSE txn[q]]

\* session.abortTransaction() in the catch block, then the error is rethrown.
AbortAndThrowNoAbort(p, e) ==
    /\ txn' = txn
    /\ res' = [res EXCEPT ![p] = Thrown(e)]
    /\ pc' = [pc EXCEPT ![p] = "done"]

AbortAndThrow(p, e) ==
    /\ txn' = [txn EXCEPT ![p] = [state |-> "aborted", stale |-> {}, wset |-> {}]]
    /\ res' = [res EXCEPT ![p] = Thrown(e)]
    /\ pc' = [pc EXCEPT ![p] = "done"]

\* ------------------------------------------------------------- toggleLike / toggleDislike
IsToggle(p) == call[p].op \in {"toggleLike", "toggleDislike"}

ExistingOwnLikeOnly(p) == loc[p].existingLike

ExistingOwn(p) ==
    IF call[p].k = "like" THEN loc[p].existingLike ELSE loc[p].existingDislike
ExistingOpp(p) ==
    IF call[p].k = "like" THEN loc[p].existingDislike ELSE loc[p].existingLike

\* vlogUpdate.$inc as the handler builds it: kind k is the toggled kind.
VlogUpdateNoSwitch(k, own, opp) ==
    IF own
    THEN [likeCount |-> IF k = "like" THEN -1 ELSE 0,
          dislikeCount |-> IF k = "dislike" THEN -1 ELSE 0]
    ELSE [likeCount |-> IF k = "like" THEN 1 ELSE 0,
          dislikeCount |-> IF k = "dislike" THEN 1 ELSE 0]

VlogUpdate(k, own, opp) ==
    IF own
    THEN [likeCount |-> IF k = "like" THEN -1 ELSE 0,
          dislikeCount |-> IF k = "dislike" THEN -1 ELSE 0]
    ELSE [likeCount |-> IF k = "like" THEN 1 ELSE IF opp THEN -1 ELSE 0,
          dislikeCount |-> IF k = "dislike" THEN 1 ELSE IF opp THEN -1 ELSE 0]

\* The Like documents after the handler's deleteOne / create calls commit.
\* Like.create inserts a new document, so two creates never write the same
\* document: no uniqueness constraint on (vlog, user, type) is relied on.
EdgeUpdateKeepOpposite(ls, k, v, u, own, opp) ==
    IF own
    THEN [ls EXCEPT ![<<v, u, k>>] = @ - 1]
    ELSE [ls EXCEPT ![<<v, u, k>>] = @ + 1]

EdgeUpdate(ls, k, v, u, own, opp) ==
    IF own
    THEN [ls EXCEPT ![<<v, u, k>>] = @ - 1]
    ELSE [ls EXCEPT ![<<v, u, k>>] = @ + 1,
                    ![<<v, u, Opposite(k)>>] = IF opp THEN @ - 1 ELSE @]

\* Vlog.findByIdAndUpdate(vlogId, {$inc}): the store adds the deltas to the
\* document's current fields.
ApplyIncOverwrite(doc, inc) ==
    [doc EXCEPT !.likeCount = inc.likeCount, !.dislikeCount = inc.dislikeCount]

ApplyIncAndViews(doc, inc) ==
    [doc EXCEPT !.likeCount = @ + inc.likeCount,
                !.dislikeCount = @ + inc.dislikeCount,
                !.views = 0]

ApplyInc(doc, inc) ==
    [doc EXCEPT !.likeCount = @ + inc.likeCount,
                !.dislikeCount = @ + inc.dislikeCount]

\* Vlog.findById(vlogId); 404 when absent, else the session is opened.
StartToggle(p, k, v, u) ==
    /\ pc[p] = "idle"
    /\ call' = [call EXCEPT ![p] =
         [NoCall EXCEPT !.op = IF k = "like" THEN "toggleLike" ELSE "toggleDislike",
                        !.v = v, !.u = u, !.k = k]]
    /\ IF vlogs[v].exists
       THEN /\ pc' = [pc EXCEPT ![p] = "tRead"]
            /\ res' = res
       ELSE /\ pc' = [pc EXCEPT ![p] = "done"]
            /\ res' = [res EXCEPT ![p] = Thrown("NotFound")]
    /\ UNCHANGED <<store, loc, txn, applied, followed, mail, seq>>

\* startSession, startTransaction, and the two Like.findOne in the session.
ToggleRead(p) ==
    /\ pc[p] = "tRead"
    /\ IsToggle(p)
    /\ txn' = [txn EXCEPT ![p] = StartTransaction]
    /\ loc' = [loc EXCEPT ![p] =
         [NoLoc EXCEPT
            !.existingLike = likes[<<call[p].v, call[p].u, "like">>] > 0,
            !.existingDislike = likes[<<call[p].v, call[p].u, "dislike">>] > 0,
            !.snapVlog = vlogs[call[p].v].exists]]
    /\ pc' = [pc EXCEPT ![p] = "tEdge"]
    /\ UNCHANGED <<store, call, res, applied, followed, mail, seq>>

\* The Like document the handler deletes, if any.
DeletedDoc(p) ==
    IF ExistingOwn(p) THEN {LikeDoc(call[p].v, call[p].u, call[p].k)}
    ELSE IF ExistingOpp(p) THEN {LikeDoc(call[p].v, call[p].u, Opposite(call[p].k))}
    ELSE {}

\* Like.deleteOne of the existing edge, or of the opposing one and Like.create.
ToggleEdge(p) ==
    /\ pc[p] = "tEdge"
    /\ IF \E d \in DeletedDoc(p) : WriteConflict(p, d)
       THEN AbortAndThrow(p, "WriteConflict")
       ELSE /\ txn' = [txn EXCEPT ![p].wset = @ \cup DeletedDoc(p)]
            /\ pc' = [pc EXCEPT ![p] = "tVlog"]
            /\ res' = res
    /\ UNCHANGED <<store, call, loc, applied, followed, mail, seq>>

\* Vlog.findByIdAndUpdate(vlogId, vlogUpdate, {session}): no document, no write.
ToggleVlog(p) ==
    /\ pc[p] = "tVlog"
    /\ IF loc[p].snapVlog /\ WriteConflict(p, VlogDoc(call[p].v))
       THEN AbortAndThrow(p, "WriteConflict")
       ELSE /\ txn' = [txn EXCEPT ![p].wset =
                   IF loc[p].snapVlog THEN @ \cup {VlogDoc(call[p].v)} ELSE @]
            /\ pc' = [pc EXCEPT ![p] = "tCommit"]
            /\ res' = res
    /\ UNCHANGED <<store, call, loc, applied, followed, mail, seq>>

\* session.commitTransaction(): the buffered writes become visible together.
ToggleCommit(p) ==
    LET v == call[p].v
        inc == VlogUpdate(call[p].k, ExistingOwn(p), ExistingOpp(p))
    IN  /\ pc[p] = "tCommit"
        /\ likes' = EdgeUpdate(likes, call[p].k, v, call[p].u,
                               ExistingOwn(p), ExistingOpp(p))
        /\ vlogs' = IF loc[p].snapVlog
                    THEN [vlogs EXCEPT ![v] = ApplyInc(@, inc)]
                    ELSE vlogs
        /\ applied' = IF loc[p].snapVlog
                      THEN [applied EXCEPT ![v] =
                              [likeCount |-> @.likeCount + inc.likeCount,
                               dislikeCount |-> @.dislikeCount + inc.dislikeCount]]
                      ELSE applied
        /\ txn' = [MarkStale(p, txn[p].wset) EXCEPT
                     ![p] = [state |-> "committed", stale |-> {}, wset |-> {}]]
        /\ pc' = [pc EXCEPT ![p] = "tReread"]
        /\ UNCHANGED <<comments, redisKeys, users, call, loc, res, followed, mail, seq>>

\* Vlog.findById(vlogId, 'likeCount dislikeCount') after the commit, and the
\* return.  A null document makes updatedVlog.likeCount throw inside the try:
\* the catch calls abortTransaction on a committed transaction, which throws.
ToggleReread(p) ==
    /\ pc[p] = "tReread"
    /\ res' = [res EXCEPT ![p] =
         IF vlogs[call[p].v].exists
         THEN [NoRes EXCEPT
                 !.err = "ok",
                 !.likeCount = vlogs[call[p].v].likeCount,
                 !.dislikeCount = vlogs[call[p].v].dislikeCount,
                 !.isLiked = (call[p].k = "like" /\ ~loc[p].existingLike),
                 !.isDisliked = (call[p].k = "dislike" /\ ~loc[p].existingDislike)]
         ELSE Thrown("MongoTransactionError")]
    /\ pc' = [pc EXCEPT ![p] = "done"]
    /\ UNCHANGED <<store, call, loc, txn, applied, followed, mail, seq>>

\* A store call of the handler fails (connection lost, timeout).  Before the
\* commit the catch block aborts the transaction; after it, abortTransaction
\* itself throws and the committed writes stay.
ToggleStoreError(p) ==
    /\ pc[p] \in {"tRead", "tEdge", "tVlog", "tCommit", "tReread"}
    /\ IsToggle(p)
    /\ IF pc[p] = "tReread"
       THEN /\ res' = [res EXCEPT ![p] = Rethrown("MongoTransactionError", "StoreError")]
            /\ pc' = [pc EXCEPT ![p] = "done"]
            /\ txn' = txn
       ELSE AbortAndThrow(p, "StoreError")
    /\ UNCHANGED <<store, call, loc, applied, followed, mail, seq>>

\* The response (or the error) is handed to the caller; session.endSession().
EndRequest(p) ==
    /\ pc[p] = "done"
    /\ pc' = [pc EXCEPT ![p] = "idle"]
    /\ call' = [call EXCEPT ![p] = NoCall]
    /\ loc' = [loc EXCEPT ![p] = NoLoc]
    /\ txn' = [txn EXCEPT ![p] = NoTxn]
    /\ res' = [res EXCEPT ![p] = NoRes]
    /\ UNCHANGED <<store, applied, followed, mail>>

Return(p) == EndRequest(p) /\ UNCHANGED seq

\* ------------------------------------------------------------- writes outside a transaction
\* A write that is not part of a transaction waits for the open transaction
\* that has written the document, then makes it stale for the others.
NoOpenWrite(d) == \A q \in Procs : d \notin txn[q].wset

Max(a, b) == IF a >= b THEN a ELSE b

\* ------------------------------------------------------------- addComment
MaxCommentLength == 500

\* A comment text, as far as addComment looks at it: its length and whether
\* trim() leaves nothing.
Texts == {[len |-> 0, blank |-> TRUE], [len |-> 3, blank |-> TRUE],
          [len |-> 3, blank |-> FALSE],
          [len |-> MaxCommentLength, blank |-> FALSE],
          [len |-> MaxCommentLength + 1, blank |-> FALSE]}

\* !text || !text.trim(), then text.length > 500.
TextRejectedAtLimit(t) == t.len = 0 \/ t.blank \/ t.len >= MaxCommentLength

TextRejected(t) == t.len = 0 \/ t.blank \/ t.len > MaxCommentLength

FreeCommentIds == {c \in CommentIds : comments[c] = NoComment}

\* The two checks of the text, then Comment.create({vlog, user, text}).
StartAddComment(p, v, u, t) ==
    /\ pc[p] = "idle"
    /\ call' = [call EXCEPT ![p] =
         [NoCall EXCEPT !.op = "addComment", !.v = v, !.u = u, !.t = t]]
    /\ IF TextRejected(t)
       THEN /\ pc' = [pc EXCEPT ![p] = "done"]
            /\ res' = [res EXCEPT ![p] = Thrown("ValidationError")]
            /\ UNCHANGED <<comments, loc>>
       ELSE /\ FreeCommentIds # {}
            /\ vlogs[v].commentCount < MaxCount
            /\ \E c \in FreeCommentIds :
                 /\ comments' = [comments EXCEPT ![c] =
                                   [exists |-> TRUE, vlog |-> v, user |-> u]]
                 /\ loc' = [loc EXCEPT ![p] = [NoLoc EXCEPT !.comment = c]]
            /\ pc' = [pc EXCEPT ![p] = "cInc"]
            /\ res' = res
    /\ UNCHANGED <<vlogs, likes, redisKeys, users, txn, applied, followed, mail, seq>>

\* Vlog.findByIdAndUpdate(vlogId, {$inc: {commentCount: 1}}), then the return.
AddCommentInc(p) ==
    LET v == call[p].v
    IN  /\ pc[p] = "cInc"
        /\ NoOpenWrite(VlogDoc(v))
        /\ vlogs' = IF vlogs[v].exists
                    THEN [vlogs EXCEPT ![v].commentCount = @ + 1]
                    ELSE vlogs
        /\ txn' = IF vlogs[v].exists THEN MarkStale(p, {VlogDoc(v)}) ELSE txn
        /\ res' = [res EXCEPT ![p] = [NoRes EXCEPT !.err = "ok"]]
        /\ pc' = [pc EXCEPT ![p] = "done"]
        /\ UNCHANGED <<likes, comments, redisKeys, users, call, loc, applied, followed, mail, seq>>

\* The increment fails: the error is thrown, the created comment stays.
AddCommentStoreError(p) ==
    /\ pc[p] = "cInc"
    /\ res' = [res EXCEPT ![p] = Thrown("StoreError")]
    /\ pc' = [pc EXCEPT ![p] = "done"]
    /\ UNCHANGED <<store, call, loc, txn, applied, followed, mail, seq>>

\* ------------------------------------------------------------- deleteComment
\* The author field of each vlog.
Author(v) == IF v = "v1" THEN "u1" ELSE "u2"

\* Comment.findById(commentId); 404 when absent.
StartDeleteComment(p, v, c, u, isAdmin) ==
    /\ pc[p] = "idle"
    /\ call' = [call EXCEPT ![p] =
         [NoCall EXCEPT !.op = "deleteComment", !.v = v, !.u = u, !.c = c,
                        !.isAdmin = isAdmin]]
    /\ IF comments[c].exists
       THEN /\ loc' = [loc EXCEPT ![p] = [NoLoc EXCEPT !.commentUser = comments[c].user]]
            /\ pc' = [pc EXCEPT ![p] = "dAuth"]
            /\ res' = res
       ELSE /\ loc' = loc
            /\ pc' = [pc EXCEPT ![p] = "done"]
            /\ res' = [res EXCEPT ![p] = Thrown("NotFound")]
    /\ UNCHANGED <<store, txn, applied, followed, mail, seq>>

\* comment.user.toString() !== userId && vlog.author.toString() !== userId
\* && !isAdmin, for an existing vlog v.
NotAuthorizedNever(commentUser, v, userId, isAdmin) == FALSE

NotAuthorized(commentUser, v, userId, isAdmin) ==
    commentUser # userId /\ Author(v) # userId /\ ~isAdmin

\* Vlog.findById(vlogId) and the authorization check.  vlog.author is read
\* only when the caller is not the comment's author; on a null vlog it throws.
DeleteCommentAuth(p) ==
    LET v == call[p].v
        u == call[p].u
    IN  /\ pc[p] = "dAuth"
        /\ IF loc[p].commentUser # u /\ ~vlogs[v].exists
           THEN /\ res' = [res EXCEPT ![p] = Thrown("TypeError")]
                /\ pc' = [pc EXCEPT ![p] = "done"]
           ELSE IF NotAuthorized(loc[p].commentUser, v, u, call[p].isAdmin)
           THEN /\ res' = [res EXCEPT ![p] = Thrown("Forbidden")]
                /\ pc' = [pc EXCEPT ![p] = "done"]
           ELSE /\ res' = res
                /\ pc' = [pc EXCEPT ![p] = "dDel"]
        /\ UNCHANGED <<store, call, loc, txn, applied, followed, mail, seq>>

\* Comment.deleteOne({_id: commentId}).
DeleteCommentRow(p) ==
    /\ pc[p] = "dDel"
    /\ comments' = [comments EXCEPT ![call[p].c] = DeletedComment]
    /\ pc' = [pc EXCEPT ![p] = "dUpd"]
    /\ UNCHANGED <<vlogs, likes, redisKeys, users, call, loc, txn, res, applied, followed, mail, seq>>

\* The clamped decrement the update asks for.
ClampedDecrementUnclamped(n) == n - 1

ClampedDecrement(n) == Max(n - 1, 0)

\* Vlog.findByIdAndUpdate(vlogId, {$inc: {commentCount: -1}, $max: {commentCount: 0}}).
\* The update names commentCount under two operators: a store that accepts it
\* decrements and clamps, a store that refuses two operators on one path
\* rejects the update and the handler throws after the row is deleted.
DeleteCommentUpdate(p) ==
    LET v == call[p].v
    IN  /\ pc[p] = "dUpd"
        /\ \/ /\ NoOpenWrite(VlogDoc(v))
              /\ vlogs' = IF vlogs[v].exists
                          THEN [vlogs EXCEPT ![v].commentCount = ClampedDecrement(@)]
                          ELSE vlogs
              /\ txn' = IF vlogs[v].exists THEN MarkStale(p, {VlogDoc(v)}) ELSE txn
              /\ res' = [res EXCEPT ![p] = [NoRes EXCEPT !.err = "ok"]]
           \/ /\ vlogs[v].exists
              /\ res' = [res EXCEPT ![p] = Thrown("ConflictingUpdateOperators")]
              /\ UNCHANGED <<vlogs, txn>>
        /\ pc' = [pc EXCEPT ![p] = "done"]
        /\ UNCHANGED <<likes, comments, redisKeys, users, call, loc, applied, followed, mail, seq>>

\* The update of a deleteComment whose store accepts it.
DeleteCommentUpdateOk(p) == DeleteCommentUpdate(p) /\ res'[p].err = "ok"

\* A store call of deleteComment fails; what was done before it stays.
DeleteCommentStoreError(p) ==
    /\ pc[p] \in {"dAuth", "dDel", "dUpd"}
    /\ res' = [res EXCEPT ![p] = Thrown("StoreError")]
    /\ pc' = [pc EXCEPT ![p] = "done"]
    /\ UNCHANGED <<store, call, loc, txn, applied, followed, mail, seq>>

\* ------------------------------------------------------------- recordView
\* redisKey = `view:${vlogId}:${viewerId}`
RedisKey(v, u) == <<"view", v, u>>

\* redis.set(redisKey, '1', 'NX', 'EX', VIEW_TTL_SECONDS): "OK" sets the key,
\* null finds it; a failing redis throws into the catch block.
StartRecordView(p, v, u) ==
    /\ pc[p] = "idle"
    /\ call' = [call EXCEPT ![p] = [NoCall EXCEPT !.op = "recordView", !.v = v, !.u = u]]
    /\ \/ /\ RedisKey(v, u) \notin redisKeys
          /\ redisKeys' = redisKeys \cup {RedisKey(v, u)}
          /\ loc' = [loc EXCEPT ![p] = [NoLoc EXCEPT !.wasSet = "OK"]]
          /\ pc' = [pc EXCEPT ![p] = "vInc"]
       \/ /\ RedisKey(v, u) \in redisKeys
          /\ redisKeys' = redisKeys
          /\ loc' = [loc EXCEPT ![p] = [NoLoc EXCEPT !.wasSet = "null"]]
          /\ pc' = [pc EXCEPT ![p] = "vRead"]
       \/ /\ redisKeys' = redisKeys
          /\ loc' = [loc EXCEPT ![p] = [NoLoc EXCEPT !.wasSet = "error"]]
          /\ pc' = [pc EXCEPT ![p] = "vFallback"]
    /\ UNCHANGED <<vlogs, likes, comments, users, txn, res, applied, followed, mail, seq>>

\* Vlog.findByIdAndUpdate(vlogId, {$inc: {views: 1}}, {new: true}) in the try
\* block; vlog.views on a null result throws into the catch block.
RecordViewInc(p) ==
    LET v == call[p].v
    IN  /\ pc[p] = "vInc"
        /\ NoOpenWrite(VlogDoc(v))
        /\ IF vlogs[v].exists
           THEN /\ vlogs[v].views < MaxCount
                /\ vlogs' = [vlogs EXCEPT ![v].views = @ + 1]
                /\ txn' = MarkStale(p, {VlogDoc(v)})
                /\ loc' = [loc EXCEPT ![p].incs = @ + 1]
                /\ res' = [res EXCEPT ![p] =
                     [NoRes EXCEPT !.err = "ok", !.incremented = TRUE,
                                   !.views = vlogs[v].views + 1]]
                /\ pc' = [pc EXCEPT ![p] = "done"]
           ELSE /\ pc' = [pc EXCEPT ![p] = "vFallback"]
                /\ UNCHANGED <<vlogs, loc, txn, res>>
        /\ UNCHANGED <<likes, comments, redisKeys, users, call, applied, followed, mail, seq>>

\* Vlog.findById(vlogId, 'views') for a duplicate view, in the try block.
RecordViewRead(p) ==
    LET v == call[p].v
    IN  /\ pc[p] = "vRead"
        /\ IF vlogs[v].exists
           THEN /\ res' = [res EXCEPT ![p] =
                     [NoRes EXCEPT !.err = "ok", !.views = vlogs[v].views]]
                /\ pc' = [pc EXCEPT ![p] = "done"]
           ELSE /\ pc' = [pc EXCEPT ![p] = "vFallback"]
                /\ res' = res
        /\ UNCHANGED <<store, call, loc, txn, applied, followed, mail, seq>>

\* The catch block: Vlog.findByIdAndUpdate(vlogId, {$inc: {views: 1}}).
RecordViewFallbackNoInc(p) ==
    /\ pc[p] = "vFallback"
    /\ res' = [res EXCEPT ![p] =
         [NoRes EXCEPT !.err = "ok", !.incremented = TRUE,
                       !.views = vlogs[call[p].v].views, !.degraded = TRUE,
                       !.raised = res[p].raised]]
    /\ pc' = [pc EXCEPT ![p] = "done"]
    /\ UNCHANGED <<store, call, loc, txn, applied, followed, mail, seq>>

RecordViewFallback(p) ==
    LET v == call[p].v
    IN  /\ pc[p] = "vFallback"
        /\ NoOpenWrite(VlogDoc(v))
        /\ IF vlogs[v].exists
           THEN /\ vlogs[v].views < MaxCount
                /\ vlogs' = [vlogs EXCEPT ![v].views = @ + 1]
                /\ txn' = MarkStale(p, {VlogDoc(v)})
                /\ loc' = [loc EXCEPT ![p].incs = @ + 1]
                /\ res' = [res EXCEPT ![p] =
                     [NoRes EXCEPT !.err = "ok", !.incremented = TRUE,
                                   !.views = vlogs[v].views + 1, !.degraded = TRUE,
                                   !.raised = res[p].raised]]
           ELSE /\ res' = [res EXCEPT ![p] = Thrown("TypeError")]
                /\ UNCHANGED <<vlogs, loc, txn>>
        /\ pc' = [pc EXCEPT ![p] = "done"]
        /\ UNCHANGED <<likes, comments, redisKeys, users, call, applied, followed, mail, seq>>

\* A durable-store call of recordView fails.  Inside the try block the error
\* lands in the catch block, whether or not the increment had been applied;
\* inside the catch block it reaches the caller.
RecordViewStoreError(p) ==
    LET v == call[p].v
    IN  /\ pc[p] \in {"vInc", "vRead", "vFallback"}
        /\ \/ /\ pc[p] \in {"vInc", "vRead"}
              /\ pc' = [pc EXCEPT ![p] = "vFallback"]
              /\ res' = [res EXCEPT ![p].raised = "StoreError"]
              /\ UNCHANGED <<vlogs, loc, txn>>
           \/ /\ pc[p] = "vInc"
              /\ vlogs[v].exists /\ NoOpenWrite(VlogDoc(v))
              /\ vlogs[v].views < MaxCount
              /\ vlogs' = [vlogs EXCEPT ![v].views = @ + 1]
              /\ loc' = [loc EXCEPT ![p].incs = @ + 1]
              /\ txn' = MarkStale(p, {VlogDoc(v)})
              /\ pc' = [pc EXCEPT ![p] = "vFallback"]
              /\ res' = [res EXCEPT ![p].raised = "StoreError"]
           \/ /\ pc[p] = "vFallback"
              /\ res' = [res EXCEPT ![p] = Thrown("StoreError")]
              /\ pc' = [pc EXCEPT ![p] = "done"]
              /\ UNCHANGED <<vlogs, loc, txn>>
        /\ UNCHANGED <<likes, comments, redisKeys, users, call, applied, followed, mail, seq>>

\* The TTL of a key elapses.
ExpireKey(key) ==
    /\ key \in redisKeys
    /\ redisKeys' = redisKeys \ {key}
    /\ UNCHANGED <<vlogs, likes, comments, users, procs, applied, followed, mail, seq>>

\* ------------------------------------------------------------- followUser / unfollowUser
IsFollow(p) == call[p].op \in {"followUser", "unfollowUser"}

\* The two updates of a committed followUser ($addToSet) or unfollowUser ($pull):
\* the follower's following set and the target's followers set.
FollowUpdateOneSided(us, op, followerId, userId) ==
    IF op = "followUser"
    THEN [us EXCEPT ![followerId].following = @ \cup {userId}]
    ELSE [us EXCEPT ![followerId].following = @ \ {userId}]

FollowUpdateNoPull(us, op, followerId, userId) ==
    IF op = "followUser"
    THEN [us EXCEPT ![followerId].following = @ \cup {userId},
                    ![userId].followers = @ \cup {followerId}]
    ELSE [us EXCEPT ![followerId].following = @ \ {userId}]

FollowUpdate(us, op, followerId, userId) ==
    IF op = "followUser"
    THEN [us EXCEPT ![followerId].following = @ \cup {userId},
                    ![userId].followers = @ \cup {followerId}]
    ELSE [us EXCEPT ![followerId].following = @ \ {userId},
                    ![userId].followers = @ \ {followerId}]

\* followUser refuses userId === followerId before it opens a session;
\* unfollowUser has no such check.
SelfFollowAllowed(op, followerId, userId) == FALSE

SelfFollow(op, followerId, userId) == op = "followUser" /\ userId = followerId

StartFollow(p, op, followerId, userId) ==
    /\ pc[p] = "idle"
    /\ call' = [call EXCEPT ![p] =
         [NoCall EXCEPT !.op = op, !.u = followerId, !.userId = userId]]
    /\ IF SelfFollow(op, followerId, userId)
       THEN /\ pc' = [pc EXCEPT ![p] = "done"]
            /\ res' = [res EXCEPT ![p] = Thrown("InvalidOperation")]
       ELSE /\ pc' = [pc EXCEPT ![p] = "fRead"]
            /\ res' = res
    /\ UNCHANGED <<store, loc, txn, applied, followed, mail, seq>>

\* The checks on the two documents read in the transaction: the target must
\* exist, followUser refuses an edge that is there, unfollowUser one that is not.
FollowCheckNoTarget(op, targetExists, isFollowing) ==
    IF op = "followUser" /\ isFollowing THEN "AlreadyExists"
    ELSE IF op = "unfollowUser" /\ ~isFollowing THEN "InvalidOperation"
    ELSE "ok"

FollowCheckNoDuplicate(op, targetExists, isFollowing) ==
    IF ~targetExists THEN "NotFound"
    ELSE IF op = "unfollowUser" /\ ~isFollowing THEN "InvalidOperation"
    ELSE "ok"

FollowCheckNoEdge(op, targetExists, isFollowing) ==
    IF ~targetExists THEN "NotFound"
    ELSE IF op = "followUser" /\ isFollowing THEN "AlreadyExists"
    ELSE "ok"

FollowCheck(op, targetExists, isFollowing) ==
    IF ~targetExists THEN "NotFound"
    ELSE IF op = "followUser" /\ isFollowing THEN "AlreadyExists"
    ELSE IF op = "unfollowUser" /\ ~isFollowing THEN "InvalidOperation"
    ELSE "ok"

\* startTransaction; User.findById(userId) and User.findById(followerId) in the
\* session; a failed check throws into the catch block.
FollowRead(p) ==
    LET userId == call[p].userId
        check == FollowCheck(call[p].op, users[userId].exists,
                             userId \in users[call[p].u].following)
    IN  /\ pc[p] = "fRead"
        /\ IF check # "ok"
           THEN AbortAndThrow(p, check)
           ELSE /\ txn' = [txn EXCEPT ![p] = StartTransaction]
                /\ pc' = [pc EXCEPT ![p] = "fFollowing"]
                /\ res' = res
        /\ UNCHANGED <<store, call, loc, applied, followed, mail, seq>>

\* User.findByIdAndUpdate(followerId, {$addToSet | $pull: {following: userId}}, {session}).
FollowWriteFollowing(p) ==
    /\ pc[p] = "fFollowing"
    /\ IF WriteConflict(p, UserDoc(call[p].u))
       THEN AbortAndThrow(p, "WriteConflict")
       ELSE /\ txn' = [txn EXCEPT ![p].wset = @ \cup {UserDoc(call[p].u)}]
            /\ pc' = [pc EXCEPT ![p] = "fFollowers"]
            /\ res' = res
    /\ UNCHANGED <<store, call, loc, applied, followed, mail, seq>>

\* User.findByIdAndUpdate(userId, {$addToSet | $pull: {followers: followerId}}, {session}).
FollowWriteFollowers(p) ==
    /\ pc[p] = "fFollowers"
    /\ IF WriteConflict(p, UserDoc(call[p].userId))
       THEN AbortAndThrow(p, "WriteConflict")
       ELSE /\ txn' = [txn EXCEPT ![p].wset = @ \cup {UserDoc(call[p].userId)}]
            /\ pc' = [pc EXCEPT ![p] = "fCommit"]
            /\ res' = res
    /\ UNCHANGED <<store, call, loc, applied, followed, mail, seq>>

\* session.commitTransaction().
FollowCommit(p) ==
    /\ pc[p] = "fCommit"
    /\ users' = FollowUpdate(users, call[p].op, call[p].u, call[p].userId)
    /\ txn' = [MarkStale(p, txn[p].wset) EXCEPT
                 ![p] = [state |-> "committed", stale |-> {}, wset |-> {}]]
    /\ followed' = LET d == IF call[p].op = "followUser" THEN 1 ELSE -1
                   IN  [followed EXCEPT ![call[p].u].following = @ + d,
                                        ![call[p].userId].followers = @ + d]
    /\ pc' = [pc EXCEPT ![p] = "fReread"]
    /\ UNCHANGED <<vlogs, likes, comments, redisKeys, call, loc, res, applied, mail, seq>>

\* The two User.findById outside the transaction, and the response.
FollowReread(p) ==
    /\ pc[p] = "fReread"
    /\ res' = [res EXCEPT ![p] =
         [NoRes EXCEPT !.err = "ok", !.isFollowing = (call[p].op = "followUser")]]
    /\ pc' = [pc EXCEPT ![p] = "done"]
    /\ UNCHANGED <<store, call, loc, txn, applied, followed, mail, seq>>

\* A store call of the handler fails: before the commit the catch block aborts
\* the transaction, after it abortTransaction itself throws.
FollowStoreError(p) ==
    /\ pc[p] \in {"fRead", "fFollowing", "fFollowers", "fCommit", "fReread"}
    /\ IF pc[p] = "fReread"
       THEN /\ res' = [res EXCEPT ![p] = Rethrown("MongoTransactionError", "StoreError")]
            /\ pc' = [pc EXCEPT ![p] = "done"]
            /\ txn' = txn
       ELSE AbortAndThrow(p, "StoreError")
    /\ UNCHANGED <<store, call, loc, applied, followed, mail, seq>>

\* The followingCount and followerCount fields of a user document, kept equal
\* to the sizes of the two sets.
followingCount(u) == Cardinality(users[u].following)
followerCount(u) == Cardinality(users[u].followers)

\* ------------------------------------------------------------- addBookmark / removeBookmark
\* $addToSet on the bookmarks array: the value is appended unless present.
InArray(arr, x) == \E i \in 1..Len(arr) : arr[i] = x
AddToSet(arr, x) == IF InArray(arr, x) THEN arr ELSE Append(arr, x)

\* user.bookmarks.filter((id) => id.toString() !== vlogId)
FilterOut(arr, x) == SelectSeq(arr, LAMBDA y : y # x)

\* Vlog.findById(req.params.vlogId); 404 when absent.
StartAddBookmark(p, u, v) ==
    /\ pc[p] = "idle"
    /\ call' = [call EXCEPT ![p] = [NoCall EXCEPT !.op = "addBookmark", !.u = u, !.v = v]]
    /\ IF vlogs[v].exists
       THEN /\ pc' = [pc EXCEPT ![p] = "bAdd"]
            /\ res' = res
       ELSE /\ pc' = [pc EXCEPT ![p] = "done"]
            /\ res' = [res EXCEPT ![p] = Thrown("NotFound")]
    /\ UNCHANGED <<store, loc, txn, applied, followed, mail, seq>>

\* User.findByIdAndUpdate(req.user.id, {$addToSet: {bookmarks: vlogId}}).
AddBookmarkUpdate(p) ==
    LET u == call[p].u
    IN  /\ pc[p] = "bAdd"
        /\ NoOpenWrite(UserDoc(u))
        /\ users' = IF users[u].exists
                    THEN [users EXCEPT ![u].bookmarks = AddToSet(@, call[p].v)]
                    ELSE users
        /\ txn' = IF users[u].exists THEN MarkStale(p, {UserDoc(u)}) ELSE txn
        /\ res' = [res EXCEPT ![p] = [NoRes EXCEPT !.err = "ok"]]
        /\ pc' = [pc EXCEPT ![p] = "done"]
        /\ UNCHANGED <<vlogs, likes, comments, redisKeys, call, loc, applied, followed, mail, seq>>

\* User.findById(req.user.id); 404 when absent, else the document is held in
\* memory and its bookmarks are filtered.
StartRemoveBookmark(p, u, v) ==
    /\ pc[p] = "idle"
    /\ call' = [call EXCEPT ![p] = [NoCall EXCEPT !.op = "removeBookmark", !.u = u, !.v = v]]
    /\ IF users[u].exists
       THEN /\ loc' = [loc EXCEPT ![p] = [NoLoc EXCEPT !.bookmarks = users[u].bookmarks]]
            /\ pc' = [pc EXCEPT ![p] = "bSave"]
            /\ res' = res
       ELSE /\ loc' = loc
            /\ pc' = [pc EXCEPT ![p] = "done"]
            /\ res' = [res EXCEPT ![p] = Thrown("NotFound")]
    /\ UNCHANGED <<store, txn, applied, followed, mail, seq>>

\* user.save(): the filtered array read earlier is written as a whole; when
\* the filter removed nothing the document is unmodified and nothing is
\* written.
RemoveBookmarkSave(p) ==
    LET u == call[p].u
        kept == FilterOut(loc[p].bookmarks, call[p].v)
    IN  /\ pc[p] = "bSave"
        /\ NoOpenWrite(UserDoc(u))
        /\ IF kept # loc[p].bookmarks /\ users[u].exists
           THEN /\ users' = [users EXCEPT ![u].bookmarks = kept]
                /\ txn' = MarkStale(p, {UserDoc(u)})
           ELSE UNCHANGED <<users, txn>>
        /\ res' = [res EXCEPT ![p] = [NoRes EXCEPT !.err = "ok"]]
        /\ pc' = [pc EXCEPT ![p] = "done"]
        /\ UNCHANGED <<vlogs, likes, comments, redisKeys, call, loc, applied, followed, mail, seq>>

\* The update or the save fails: the error reaches the caller.
BookmarkStoreError(p) ==
    /\ pc[p] \in {"bAdd", "bSave"}
    /\ res' = [res EXCEPT ![p] = Thrown("StoreError")]
    /\ pc' = [pc EXCEPT ![p] = "done"]
    /\ UNCHANGED <<store, call, loc, txn, applied, followed, mail, seq>>

\* ------------------------------------------------------------- emailQueue.js
\* The module before its initialisation has run: emailQueue = null,
\* queueReady = false, no isReady() promise yet.
NoMail == [queue |-> "uninit", ready |-> FALSE, check |-> "none",
           jobs |-> <<>>, sent |-> <<>>]

DefaultPriority == 5
Emails == {[to |-> "a", critical |-> FALSE], [to |-> "b", critical |-> TRUE]}
Priorities == {DefaultPriority, 10}

\* new Queue('email', ...) succeeds; isReady() is pending.
QueueCreated ==
    /\ mail.queue = "uninit"
    /\ mail' = [mail EXCEPT !.queue = "ok", !.check = "pending"]
    /\ UNCHANGED <<store, procs, applied, followed, seq>>

\* new Queue throws: emailQueue stays null and queueReady false.
QueueCreateThrows ==
    /\ mail.queue = "uninit"
    /\ mail' = [mail EXCEPT !.queue = "null", !.ready = FALSE]
    /\ UNCHANGED <<store, procs, applied, followed, seq>>

\* emailQueue.isReady().then(() => { queueReady = true })
IsReadyResolves ==
    /\ mail.check = "pending"
    /\ mail' = [mail EXCEPT !.ready = TRUE, !.check = "settled"]
    /\ UNCHANGED <<store, procs, applied, followed, seq>>

\* .catch(() => { queueReady = false })
IsReadyRejects ==
    /\ mail.check = "pending"
    /\ mail' = [mail EXCEPT !.ready = FALSE, !.check = "settled"]
    /\ UNCHANGED <<store, procs, applied, followed, seq>>

\* if (!queueReady || !emailQueue)
UseFallbackNever(queueReady, emailQueue) == FALSE

UseFallbackAlways(queueReady, emailQueue) == TRUE

UseFallback(queueReady, emailQueue) == ~queueReady \/ emailQueue = "null"

\* attempts: emailData.critical ? 5 : 3
Attempts(emailData) == IF emailData.critical THEN 5 ELSE 3

\* queueEmail(emailData, priority) up to its first await.
StartQueueEmail(p, emailData, priority) ==
    /\ pc[p] = "idle"
    /\ mail.queue # "uninit"
    /\ call' = [call EXCEPT ![p] =
         [NoCall EXCEPT !.op = "queueEmail", !.emailData = emailData,
                        !.priority = priority]]
    /\ pc' = [pc EXCEPT ![p] =
         IF UseFallback(mail.ready, mail.queue) THEN "qSync" ELSE "qAdd"]
    /\ UNCHANGED <<store, loc, txn, res, applied, followed, mail, seq>>

\* await emailQueue.add(emailData, {priority, attempts}) resolves with the job.
QueueAdd(p) ==
    LET id == Len(mail.jobs) + 1
    IN  /\ pc[p] = "qAdd"
        /\ Len(mail.jobs) < MaxEmails
        /\ mail' = [mail EXCEPT !.jobs = Append(@,
             [id |-> id, data |-> call[p].emailData, priority |-> call[p].priority,
              attempts |-> Attempts(call[p].emailData)])]
        /\ res' = [res EXCEPT ![p] =
             [NoRes EXCEPT !.err = "ok", !.jobId = id, !.queued = TRUE]]
        /\ pc' = [pc EXCEPT ![p] = "done"]
        /\ UNCHANGED <<store, call, loc, txn, applied, followed, seq>>

\* emailQueue.add rejects: the catch block falls back to sendEmailSync.
QueueAddFails(p) ==
    /\ pc[p] = "qAdd"
    /\ pc' = [pc EXCEPT ![p] = "qSync"]
    /\ UNCHANGED <<store, call, loc, txn, res, applied, followed, mail, seq>>

\* const result = await sendEmailSync(emailData); return {emailId: result.id,
\* fallback: true}
SendEmailSync(p) ==
    LET id == Len(mail.sent) + 1
    IN  /\ pc[p] = "qSync"
        /\ Len(mail.sent) < MaxEmails
        /\ mail' = [mail EXCEPT !.sent = Append(@,
             [id |-> id, data |-> call[p].emailData])]
        /\ res' = [res EXCEPT ![p] =
             [NoRes EXCEPT !.err = "ok", !.emailId = id, !.fallback = TRUE]]
        /\ pc' = [pc EXCEPT ![p] = "done"]
        /\ UNCHANGED <<store, call, loc, txn, applied, followed, seq>>

\* sendEmailSync throws (no API key, or resend.emails.send rejects): queueEmail
\* rejects with that error.
SendEmailSyncThrows(p) ==
    /\ pc[p] = "qSync"
    /\ res' = [res EXCEPT ![p] = Thrown("EmailError")]
    /\ pc' = [pc EXCEPT ![p] = "done"]
    /\ UNCHANGED <<store, call, loc, txn, applied, followed, mail, seq>>

\* ------------------------------------------------------------- deletion of a vlog
\* Another request deletes the vlog document.
DeleteVlog(v) ==
    /\ vlogs[v].exists
    /\ NoOpenWrite(VlogDoc(v))
    /\ vlogs' = [vlogs EXCEPT ![v] = [NewVlog EXCEPT !.exists = FALSE]]
    /\ txn' = MarkStale(0, {VlogDoc(v)})
    /\ UNCHANGED <<likes, comments, redisKeys, users, pc, call, loc, res, applied, followed, mail, seq>>

\* ------------------------------------------------------------- a run of toggleLike calls
EdgeState(v, u) ==
    IF likes[<<v, u, "like">>] > 0 THEN "like"
    ELSE IF likes[<<v, u, "dislike">>] > 0 THEN "dislike"
    ELSE "neutral"

\* No run is being recorded.
NoSeq == [on |-> FALSE, n |-> 0, v |-> MissingVlog, u |-> "u1",
          start |-> "neutral", likeCount |-> 0, dislikeCount |-> 0,
          userId |-> MissingUser, users |-> <<>>]

\* From here on the only calls are toggleLike(v, u); the state before the
\* first of them is remembered.
BeginSeq(v, u) ==
    /\ ~seq.on
    /\ \A p \in Procs : pc[p] = "idle"
    /\ seq' = [NoSeq EXCEPT !.on = TRUE, !.v = v, !.u = u,
                             !.start = EdgeState(v, u),
                             !.likeCount = vlogs[v].likeCount,
                             !.dislikeCount = vlogs[v].dislikeCount]
    /\ UNCHANGED <<store, procs, applied, followed, mail>>

\* Before the run: any toggle by any user.
SetupToggle(p, k, v, u) == ~seq.on /\ StartToggle(p, k, v, u)

\* In the run: the next toggleLike of the same user on the same vlog.
SeqToggleLike(p) ==
    /\ seq.on
    /\ seq.n < MaxCalls
    /\ StartToggle(p, "like", seq.v, seq.u)

\* A call of the run has returned; a call that threw ends the run.
SeqReturn(p) ==
    /\ EndRequest(p)
    /\ seq' = IF ~seq.on THEN seq
              ELSE IF res[p].err = "ok" THEN [seq EXCEPT !.n = @ + 1]
              ELSE NoSeq

\* From here on the calls are followUser(followerId, userId) and then
\* unfollowUser(followerId, userId), from a state where followerId does not
\* follow userId; the user documents before the first call are remembered.
BeginTrip(followerId, userId) ==
    /\ ~seq.on
    /\ \A p \in Procs : pc[p] = "idle"
    /\ userId \notin users[followerId].following
    /\ seq' = [NoSeq EXCEPT !.on = TRUE, !.u = followerId, !.userId = userId,
                             !.users = users]
    /\ UNCHANGED <<store, procs, applied, followed, mail>>

\* Before the run: any followUser or unfollowUser.
SetupFollow(p, op, followerId, userId) ==
    ~seq.on /\ StartFollow(p, op, followerId, userId)

\* In the run: followUser first, unfollowUser after it has succeeded.
TripFollow(p) ==
    /\ seq.on /\ seq.n = 0
    /\ StartFollow(p, "followUser", seq.u, seq.userId)

TripUnfollow(p) ==
    /\ seq.on /\ seq.n = 1
    /\ StartFollow(p, "unfollowUser", seq.u, seq.userId)

\* ------------------------------------------------------------- specification

Init ==
    /\ vlogs = [v \in VlogIds |->
                  IF v \in Vlogs THEN NewVlog ELSE [NewVlog EXCEPT !.exists = FALSE]]
    /\ likes = [e \in VlogIds \X Users \X Kinds |-> 0]
    /\ comments = [c \in CommentIds |-> NoComment]
    /\ redisKeys = {}
    /\ users = [u \in UserIds |->
                  [exists |-> u \in FollowUsers, following |-> {}, followers |-> {},
                   bookmarks |-> <<>>]]
    /\ pc = [p \in Procs |-> "idle"]
    /\ call = [p \in Procs |-> NoCall]
    /\ loc = [p \in Procs |-> NoLoc]
    /\ txn = [p \in Procs |-> NoTxn]
    /\ res = [p \in Procs |-> NoRes]
    /\ applied = [v \in VlogIds |-> [likeCount |-> 0, dislikeCount |-> 0]]
    /\ followed = [u \in UserIds |-> [following |-> 0, followers |-> 0]]
    /\ mail = NoMail
    /\ seq = NoSeq

\* Concurrent requests toggling reactions on one vlog (and on a missing one).
ToggleVlogs == {"v1", MissingVlog}

Next ==
    \E p \in Procs :
        \/ \E k \in Kinds, v \in ToggleVlogs, u \in Users : StartToggle(p, k, v, u)
        \/ ToggleRead(p)
        \/ ToggleEdge(p)
        \/ ToggleVlog(p)
        \/ ToggleCommit(p)
        \/ ToggleReread(p)
        \/ ToggleStoreError(p)
        \/ Return(p)

Spec == Init /\ [][Next]_vars

\* Every operation of the service, concurrently, on one vlog.
AllVlogs == {"v1"}
AllUsers == {"u1"}
AllTexts == {t \in Texts : t.len = 3}

NextAll ==
    \/ \E p \in Procs :
        \/ \E k \in Kinds, v \in AllVlogs, u \in AllUsers : StartToggle(p, k, v, u)
        \/ ToggleRead(p)
        \/ ToggleEdge(p)
        \/ ToggleVlog(p)
        \/ ToggleCommit(p)
        \/ ToggleReread(p)
        \/ ToggleStoreError(p)
        \/ \E v \in AllVlogs, u \in AllUsers, t \in AllTexts : StartAddComment(p, v, u, t)
        \/ AddCommentInc(p)
        \/ AddCommentStoreError(p)
        \/ \E v \in AllVlogs, c \in CommentIds, u \in AllUsers, a \in {FALSE} :
              StartDeleteComment(p, v, c, u, a)
        \/ DeleteCommentAuth(p)
        \/ DeleteCommentRow(p)
        \/ DeleteCommentUpdate(p)
        \/ DeleteCommentStoreError(p)
        \/ \E v \in AllVlogs, u \in AllUsers : StartRecordView(p, v, u)
        \/ RecordViewInc(p)
        \/ RecordViewRead(p)
        \/ RecordViewFallback(p)
        \/ RecordViewStoreError(p)
        \/ Return(p)
    \/ \E v \in AllVlogs, u \in AllUsers : ExpireKey(RedisKey(v, u))

SpecAll == Init /\ [][NextAll]_vars

\* One request at a time toggles a vlog that another request may delete.
NextDel ==
    \/ \E k \in Kinds, v \in ToggleVlogs, u \in Users : StartToggle(1, k, v, u)
    \/ ToggleRead(1)
    \/ ToggleEdge(1)
    \/ ToggleVlog(1)
    \/ ToggleCommit(1)
    \/ ToggleReread(1)
    \/ ToggleStoreError(1)
    \/ Return(1)
    \/ DeleteVlog("v1")

SpecDel == Init /\ [][NextDel]_vars

\* One request at a time; after BeginSeq only toggleLike by one user on one vlog.
NextSeq ==
    \/ \E u \in Users : BeginSeq("v1", u)
    \/ \E k \in Kinds, u \in Users : SetupToggle(1, k, "v1", u)
    \/ SeqToggleLike(1)
    \/ ToggleRead(1)
    \/ ToggleEdge(1)
    \/ ToggleVlog(1)
    \/ ToggleCommit(1)
    \/ ToggleReread(1)
    \/ ToggleStoreError(1)
    \/ SeqReturn(1)

SpecSeq == Init /\ [][NextSeq]_vars

\* Concurrent followUser and unfollowUser requests between two users, and
\* towards a user that does not exist.
FollowTargets == Users \cup {MissingUser}

NextFollow ==
    \E p \in Procs :
        \/ \E op \in {"followUser", "unfollowUser"}, a \in Users, b \in FollowTargets :
              StartFollow(p, op, a, b)
        \/ FollowRead(p)
        \/ FollowWriteFollowing(p)
        \/ FollowWriteFollowers(p)
        \/ FollowCommit(p)
        \/ FollowReread(p)
        \/ FollowStoreError(p)
        \/ Return(p)

SpecFollow == Init /\ [][NextFollow]_vars

\* Concurrent addComment and deleteComment requests of two users, one of
\* them the author of the vlog, with and without the admin role.
CommentVlogs == {"v1", MissingVlog}

NextComment ==
    \E p \in Procs :
        \/ \E u \in Users, t \in AllTexts : StartAddComment(p, "v1", u, t)
        \/ AddCommentInc(p)
        \/ AddCommentStoreError(p)
        \/ \E v \in CommentVlogs, c \in CommentIds, u \in Users, a \in BOOLEAN :
              StartDeleteComment(p, v, c, u, a)
        \/ DeleteCommentAuth(p)
        \/ DeleteCommentRow(p)
        \/ DeleteCommentUpdate(p)
        \/ DeleteCommentStoreError(p)
        \/ Return(p)

SpecComment == Init /\ [][NextComment]_vars

\* Concurrent addComment requests with every kind of text, on one vlog and
\* on a missing one.
NextAdd ==
    \E p \in Procs :
        \/ \E v \in CommentVlogs, u \in Users, t \in Texts : StartAddComment(p, v, u, t)
        \/ AddCommentInc(p)
        \/ AddCommentStoreError(p)
        \/ Return(p)

SpecAdd == Init /\ [][NextAdd]_vars

\* The email queue module loads, its readiness check settles at any time, and
\* concurrent requests queue emails.
NextMail ==
    \/ QueueCreated
    \/ QueueCreateThrows
    \/ IsReadyResolves
    \/ IsReadyRejects
    \/ \E p \in Procs :
        \/ \E e \in Emails, pr \in Priorities : StartQueueEmail(p, e, pr)
        \/ QueueAdd(p)
        \/ QueueAddFails(p)
        \/ SendEmailSync(p)
        \/ SendEmailSyncThrows(p)
        \/ Return(p)

SpecMail == Init /\ [][NextMail]_vars

\* Concurrent toggles where each process toggles a (vlog, user) pair of its
\* own: no two requests ever work on the same pair.
PairOf(p) == <<IF p <= 2 THEN "v1" ELSE "v2", IF p % 2 = 1 THEN "u1" ELSE "u2">>

NextPairs ==
    \E p \in Procs :
        \/ \E k \in Kinds : StartToggle(p, k, PairOf(p)[1], PairOf(p)[2])
        \/ ToggleRead(p)
        \/ ToggleEdge(p)
        \/ ToggleVlog(p)
        \/ ToggleCommit(p)
        \/ ToggleReread(p)
        \/ Return(p)

SpecPairs == Init /\ [][NextPairs]_vars

\* The handlers that open a transaction, concurrently: toggles of one user on
\* one vlog, follows and unfollows of one user by another.  A handler that is
\* running takes its next step: every store call returns or fails.
HandlerStep(p) ==
    \/ ToggleRead(p)
    \/ ToggleEdge(p)
    \/ ToggleVlog(p)
    \/ ToggleCommit(p)
    \/ ToggleReread(p)
    \/ ToggleStoreError(p)
    \/ FollowRead(p)
    \/ FollowWriteFollowing(p)
    \/ FollowWriteFollowers(p)
    \/ FollowCommit(p)
    \/ FollowReread(p)
    \/ FollowStoreError(p)
    \/ Return(p)

NextTxn ==
    \E p \in Procs :
        \/ \E k \in Kinds : StartToggle(p, k, "v1", "u1")
        \/ \E op \in {"followUser", "unfollowUser"} : StartFollow(p, op, "u1", "u2")
        \/ HandlerStep(p)

SpecTxn == Init /\ [][NextTxn]_vars /\ \A p \in Procs : WF_vars(HandlerStep(p))

\* Concurrent bookmark requests of one user: any vlog is added, and only
\* RemovedVlog is ever removed, so that nothing but a removal of another vlog
\* can take KeptVlog out of the bookmarks.
KeptVlog == "v1"
RemovedVlog == "v2"

NextBookmark ==
    \E p \in Procs :
        \/ \E v \in VlogIds : StartAddBookmark(p, "u1", v)
        \/ AddBookmarkUpdate(p)
        \/ \E u \in {"u1", MissingUser} : StartRemoveBookmark(p, u, RemovedVlog)
        \/ RemoveBookmarkSave(p)
        \/ BookmarkStoreError(p)
        \/ Return(p)

SpecBookmark == Init /\ [][NextBookmark]_vars

\* One request at a time: any follows and unfollows, then followUser(A, B)
\* and unfollowUser(A, B) in a row.
NextTrip ==
    \/ \E a \in Users, b \in FollowUsers : BeginTrip(a, b)
    \/ \E op \in {"followUser", "unfollowUser"}, a \in Users, b \in FollowUsers :
          SetupFollow(1, op, a, b)
    \/ TripFollow(1)
    \/ TripUnfollow(1)
    \/ FollowRead(1)
    \/ FollowWriteFollowing(1)
    \/ FollowWriteFollowers(1)
    \/ FollowCommit(1)
    \/ FollowReread(1)
    \/ FollowStoreError(1)
    \/ SeqReturn(1)

SpecTrip == Init /\ [][NextTrip]_vars

\* One request at a time adds and deletes comments on two vlogs, and no store
\* call fails: every call that passes its checks completes.
NextCount ==
    \/ \E v \in Vlogs, u \in Users, t \in AllTexts : StartAddComment(1, v, u, t)
    \/ AddCommentInc(1)
    \/ \E v \in Vlogs, c \in CommentIds, u \in Users, a \in BOOLEAN :
          StartDeleteComment(1, v, c, u, a)
    \/ DeleteCommentAuth(1)
    \/ DeleteCommentRow(1)
    \/ DeleteCommentUpdateOk(1)
    \/ Return(1)

SpecCount == Init /\ [][NextCount]_vars

\* Concurrent recordView requests of one viewer, on one vlog and on a
\* missing one, and the expiry of the viewer's keys.
ViewVlogs == {"v1", MissingVlog}
ViewUsers == {"u1"}

NextView ==
    \/ \E p \in Procs :
        \/ \E v \in ViewVlogs, u \in ViewUsers : StartRecordView(p, v, u)
        \/ RecordViewInc(p)
        \/ RecordViewRead(p)
        \/ RecordViewFallback(p)
        \/ RecordViewStoreError(p)
        \/ Return(p)
    \/ \E v \in ViewVlogs, u \in ViewUsers : ExpireKey(RedisKey(v, u))

SpecView == Init /\ [][NextView]_vars

\* ------------------------------------------------------------- properties
EdgeCount(v, k) == Cardinality({u \in Users : likes[<<v, u, k>>] > 0})
HasEdge(v, u, k) == likes[<<v, u, k>>] > 0
Switching(p) == IsToggle(p) /\ ~ExistingOwn(p) /\ ExistingOpp(p)
Committing(p) == pc[p] = "tCommit" /\ pc'[p] = "tReread"

\* C1: no user ever holds both a like edge and a dislike edge on one vlog.
MutualExclusion ==
    \A v \in VlogIds, u \in Users : ~(HasEdge(v, u, "like") /\ HasEdge(v, u, "dislike"))

\* A toggleDislike by a user who held a like has returned: the like is gone.
MutualExclusionWitness ==
    \E p \in Procs :
        /\ pc[p] = "done" /\ res[p].err = "ok"
        /\ call[p].op = "toggleDislike" /\ loc[p].existingLike
        /\ HasEdge(call[p].v, call[p].u, "dislike")

\* C2: whatever the interleaving of concurrent toggles, a committed state has
\* at most one edge per (vlog, user, kind), never both kinds for one pair, and
\* no negative likeCount or dislikeCount.
ConcurrentTogglesSafe ==
    /\ \A v \in VlogIds, u \in Users :
          /\ likes[<<v, u, "like">>] \in {0, 1}
          /\ likes[<<v, u, "dislike">>] \in {0, 1}
          /\ likes[<<v, u, "like">>] + likes[<<v, u, "dislike">>] <= 1
    /\ \A v \in VlogIds : vlogs[v].likeCount >= 0 /\ vlogs[v].dislikeCount >= 0

\* Two requests toggled the same pair at once: one committed, the other was
\* refused by the store with a write conflict.
ConcurrentTogglesWitness ==
    \E p, q \in Procs :
        /\ p # q
        /\ call[p].v = call[q].v /\ call[p].u = call[q].u
        /\ IsToggle(p) /\ IsToggle(q)
        /\ pc[p] = "tReread"
        /\ pc[q] = "done" /\ res[q].err = "WriteConflict"

\* C3: in every committed state each vlog's likeCount is the number of its like
\* edges and its dislikeCount the number of its dislike edges.
ReactionCountersExact ==
    \A v \in Vlogs :
        /\ vlogs[v].likeCount = EdgeCount(v, "like")
        /\ vlogs[v].dislikeCount = EdgeCount(v, "dislike")

\* One vlog carries a like of one user and a dislike of the other.
ReactionCountersWitness ==
    /\ vlogs["v1"].likeCount = 1 /\ vlogs["v1"].dislikeCount = 1
    /\ \A p \in Procs : pc[p] = "idle"

\* C6 (as claimed): a toggle that surfaces an error has persisted nothing.
ToggleErrorPersistsNothing ==
    \A p \in Procs :
        (pc[p] = "done" /\ IsToggle(p) /\ res[p].err # "ok")
            => txn[p].state # "committed"

\* C8: the commit of a switch removes the opposing edge and adds the owned one,
\* moves each counter by exactly 1, and the call returns the owned flag only,
\* with the counters read after the commit.
SwitchCase ==
    [][\A p \in Procs :
        LET v == call[p].v
            u == call[p].u
            k == call[p].k
            o == Opposite(call[p].k)
            own(d) == IF k = "like" THEN d.likeCount ELSE d.dislikeCount
            opp(d) == IF k = "like" THEN d.dislikeCount ELSE d.likeCount
        IN  /\ (Committing(p) /\ Switching(p)) =>
                /\ likes'[<<v, u, k>>] = 1 /\ likes[<<v, u, k>>] = 0
                /\ likes'[<<v, u, o>>] = 0 /\ likes[<<v, u, o>>] = 1
                /\ own(vlogs'[v]) = own(vlogs[v]) + 1
                /\ opp(vlogs'[v]) = opp(vlogs[v]) - 1
            /\ (pc[p] = "tReread" /\ pc'[p] = "done" /\ Switching(p)
                  /\ res'[p].err = "ok") =>
                /\ res'[p].isLiked = (k = "like")
                /\ res'[p].isDisliked = (k = "dislike")
                /\ res'[p].likeCount = vlogs[v].likeCount
                /\ res'[p].dislikeCount = vlogs[v].dislikeCount
    ]_vars

\* A toggleLike by a user who held a dislike has returned isLiked.
SwitchCaseWitness ==
    \E p \in Procs :
        /\ pc[p] = "done" /\ res[p].err = "ok"
        /\ call[p].op = "toggleLike" /\ loc[p].existingDislike
        /\ res[p].isLiked /\ ~res[p].isDisliked

\* C9: the counters of a vlog are the initial zero plus the sum of the deltas
\* of every committed toggle: no committed delta is overwritten.
NoLostCounterUpdates ==
    \A v \in Vlogs :
        /\ vlogs[v].likeCount = applied[v].likeCount
        /\ vlogs[v].dislikeCount = applied[v].dislikeCount

\* Two overlapping requests of different users on one vlog have both committed.
NoLostCounterUpdatesWitness ==
    \E p, q \in Procs :
        /\ p # q
        /\ pc[p] = "tReread" /\ pc[q] = "tReread"
        /\ call[p].v = call[q].v /\ call[p].u # call[q].u
        /\ vlogs[call[p].v].likeCount + vlogs[call[p].v].dislikeCount = 2

\* C4: in every reachable state, under every interleaving of the five
\* operations, the four counters of every vlog are at least 0.
CountersNonNegative ==
    \A v \in VlogIds :
        /\ vlogs[v].likeCount >= 0
        /\ vlogs[v].dislikeCount >= 0
        /\ vlogs[v].commentCount >= 0
        /\ vlogs[v].views >= 0

\* Two deleteComment calls raced on the last comment and both returned: the
\* second decrement met a commentCount of 0.
CountersNonNegativeWitness ==
    \E p, q \in Procs :
        /\ p # q
        /\ pc[p] = "done" /\ call[p].op = "deleteComment" /\ res[p].err = "ok"
        /\ pc[q] = "done" /\ call[q].op = "deleteComment" /\ res[q].err = "ok"
        /\ call[p].c = call[q].c
        /\ vlogs[call[p].v].commentCount = 0

\* C5 (as claimed): after an odd number of toggleLike calls the user holds a
\* like and likeCount is the original plus 1; after an even number the user is
\* neutral and both counters have their original values.
ToggleSymmetryAsClaimed ==
    (seq.on /\ seq.n > 0 /\ pc[1] = "idle") =>
        /\ (seq.n % 2 = 1) =>
              /\ HasEdge(seq.v, seq.u, "like")
              /\ vlogs[seq.v].likeCount = seq.likeCount + 1
        /\ (seq.n % 2 = 0) =>
              /\ EdgeState(seq.v, seq.u) = "neutral"
              /\ vlogs[seq.v].likeCount = seq.likeCount
              /\ vlogs[seq.v].dislikeCount = seq.dislikeCount

\* C5 (amended): the parity rule holds from a start without a like edge, a
\* dislike held at the start is removed by the first call and stays removed,
\* and from a start with a like edge the parities are exchanged.
ToggleSymmetry ==
    (seq.on /\ seq.n > 0 /\ pc[1] = "idle") =>
        LET odd == seq.n % 2 = 1
            switched == IF seq.start = "dislike" THEN 1 ELSE 0
        IN  /\ ~HasEdge(seq.v, seq.u, "dislike")
            /\ vlogs[seq.v].dislikeCount = seq.dislikeCount - switched
            /\ IF seq.start = "like"
               THEN /\ HasEdge(seq.v, seq.u, "like") = ~odd
                    /\ vlogs[seq.v].likeCount = seq.likeCount - (IF odd THEN 1 ELSE 0)
               ELSE /\ HasEdge(seq.v, seq.u, "like") = odd
                    /\ vlogs[seq.v].likeCount = seq.likeCount + (IF odd THEN 1 ELSE 0)

\* Three toggleLike calls in a row have returned, the first one a switch.
ToggleSymmetryWitness ==
    seq.on /\ seq.n = 3 /\ seq.start = "dislike" /\ pc[1] = "idle"

\* C7 (as claimed): a toggle that finds no vlog fails with NotFound and commits
\* nothing, also when the vlog vanished between the check and the transaction.
MissingVlogIsNotFound ==
    \A p \in Procs :
        (IsToggle(p) /\ pc[p] = "done") =>
            /\ (txn[p].state = "committed") => loc[p].snapVlog
            /\ (res[p].err = "NotFound") => txn[p].state = "none"

\* C10: in every committed state, B is in A's following set exactly when A is
\* in B's followers set.
FollowSymmetric ==
    \A a, b \in UserIds :
        (b \in users[a].following) <=> (a \in users[b].followers)

\* One user follows the other, and an unfollowUser has committed and returned.
FollowSymmetricWitness ==
    /\ \E a, b \in Users : b \in users[a].following
    /\ \E p \in Procs :
          pc[p] = "done" /\ call[p].op = "unfollowUser" /\ res[p].err = "ok"

Leaves(p, at) == pc[p] = at /\ pc'[p] # at

\* C12: followUser(A,B) when A already follows B is refused with
\* AlreadyExists by the check made on the documents read in the transaction
\* (unless the read itself fails), the transaction is aborted, and no user's
\* sets or counts change.
DuplicateFollowRefused ==
    [][\A p \in Procs :
         (/\ Leaves(p, "fRead")
          /\ call[p].op = "followUser"
          /\ call[p].userId \in users[call[p].u].following)
         => /\ pc'[p] = "done"
            /\ res'[p].err \in {"AlreadyExists", "StoreError"}
            /\ txn'[p].state = "aborted"
            /\ users' = users
            /\ followingCount(call[p].u)' = followingCount(call[p].u)]_vars

\* followUser(u1,u2) was refused as a duplicate and followingCount(u1) is 1.
DuplicateFollowWitness ==
    \E p \in Procs :
        /\ pc[p] = "done" /\ call[p].op = "followUser"
        /\ call[p].u = "u1" /\ call[p].userId = "u2"
        /\ res[p].err = "AlreadyExists"
        /\ followingCount("u1") = 1

\* C13: followUser of oneself is refused with InvalidOperation before a
\* transaction is opened and changes nothing, and no user is ever in their
\* own following or followers set.
NoSelfFollow ==
    [][/\ \A p \in Procs :
            (/\ Leaves(p, "idle")
             /\ call'[p].op = "followUser"
             /\ call'[p].u = call'[p].userId)
            => /\ pc'[p] = "done"
               /\ res'[p].err = "InvalidOperation"
               /\ txn' = txn
               /\ store' = store
       /\ \A u \in UserIds :
            u \notin users'[u].following /\ u \notin users'[u].followers]_vars

\* A followUser(u1,u1) was refused while u1 follows somebody else.
NoSelfFollowWitness ==
    \E p \in Procs :
        /\ pc[p] = "done" /\ call[p].op = "followUser"
        /\ call[p].u = "u1" /\ call[p].userId = "u1"
        /\ res[p].err = "InvalidOperation"
        /\ users["u1"].following # {}

\* C14: when a step of followUser or unfollowUser fails before the commit has
\* happened (a read, a check, either set update, the commit), the transaction
\* is aborted and the users are as they were; and no step ever leaves an edge
\* in only one of the two sets.
FollowAtomicOnFailure ==
    [][/\ \A p \in Procs :
            (/\ IsFollow(p)
             /\ pc[p] \in {"fRead", "fFollowing", "fFollowers", "fCommit"}
             /\ pc'[p] = "done")
            => /\ txn'[p].state = "aborted"
               /\ res'[p].err # "ok"
               /\ users' = users
       /\ \A a, b \in UserIds :
            (b \in users'[a].following) <=> (a \in users'[b].followers)]_vars

\* An unfollowUser was refused at a set update by a write conflict: it is
\* aborted and the edge is still in both sets.
FollowAtomicWitness ==
    \E p \in Procs :
        /\ pc[p] = "done" /\ call[p].op = "unfollowUser"
        /\ res[p].err = "WriteConflict" /\ txn[p].state = "aborted"
        /\ call[p].userId \in users[call[p].u].following
        /\ call[p].u \in users[call[p].userId].followers

\* C15: unfollowUser(A,B) of an existing B that A does not follow is refused
\* with InvalidOperation (unless the read fails) and changes no set; the
\* commit of an unfollowUser finds the edge in both sets and removes it from
\* both.
UnfollowChecked ==
    [][\A p \in Procs :
         /\ (/\ Leaves(p, "fRead")
              /\ call[p].op = "unfollowUser"
              /\ users[call[p].userId].exists
              /\ call[p].userId \notin users[call[p].u].following)
             => /\ pc'[p] = "done"
                /\ res'[p].err \in {"InvalidOperation", "StoreError"}
                /\ users' = users
         /\ (/\ call[p].op = "unfollowUser"
              /\ pc[p] = "fCommit" /\ pc'[p] = "fReread")
             => /\ call[p].userId \in users[call[p].u].following
                /\ call[p].u \in users[call[p].userId].followers
                /\ call[p].userId \notin users'[call[p].u].following
                /\ call[p].u \notin users'[call[p].userId].followers]_vars

\* One unfollowUser was refused as not following and another one committed.
UnfollowCheckedWitness ==
    \E p, q \in Procs :
        /\ call[p].op = "unfollowUser" /\ pc[p] = "done"
        /\ res[p].err = "InvalidOperation"
        /\ call[q].op = "unfollowUser" /\ pc[q] = "fReread"

\* C16: followUser towards a user that does not exist is refused with
\* NotFound (unless the read fails) and the follower's following set is
\* unchanged.
FollowMissingUser ==
    [][\A p \in Procs :
         (/\ Leaves(p, "fRead")
          /\ call[p].op = "followUser"
          /\ ~users[call[p].userId].exists)
         => /\ pc'[p] = "done"
            /\ res'[p].err \in {"NotFound", "StoreError"}
            /\ users'[call[p].u].following = users[call[p].u].following]_vars

\* followUser(u1, missing user) was refused while u1 follows u2.
FollowMissingUserWitness ==
    \E p \in Procs :
        /\ pc[p] = "done" /\ call[p].op = "followUser"
        /\ call[p].userId = MissingUser
        /\ res[p].err = "NotFound"
        /\ users[call[p].u].following = {"u2"}

IsView(p) == call[p].op = "recordView"

\* C17: a recordView call that set the dedup key increments the view count
\* exactly once, and a call that found the key (a second call within the TTL
\* window) does not increment and returns incremented false; after the key
\* has expired the next call sets it again and so increments again.
ViewDedup ==
    \A p \in Procs :
        (IsView(p) /\ pc[p] = "done" /\ res[p].err = "ok")
            => /\ loc[p].wasSet = "OK" => loc[p].incs = 1 /\ res[p].incremented
               /\ loc[p].wasSet = "null" => loc[p].incs = 0 /\ ~res[p].incremented

DuplicateViewNoOp ==
    \A p \in Procs :
        (IsView(p) /\ loc[p].wasSet = "null")
            => /\ loc[p].incs = 0
               /\ (pc[p] = "done" /\ res[p].err = "ok") => ~res[p].incremented

\* The caller of deleteComment request p is the author of the comment it
\* read, the author of the vlog it names, or an admin.
InRole(p) ==
    \/ loc[p].commentUser = call[p].u
    \/ vlogs[call[p].v].exists /\ Author(call[p].v) = call[p].u
    \/ call[p].isAdmin

ClampedDecrementApplied ==
    [][\A p \in Procs :
         (/\ pc[p] = "dUpd" /\ pc'[p] = "done"
          /\ vlogs[call[p].v].exists
          /\ res'[p].err # "StoreError")
         => /\ res'[p].err = "ok"
            /\ vlogs'[call[p].v].commentCount =
                  Max(vlogs[call[p].v].commentCount - 1, 0)]_vars

\* The comment rows that reference vlog v.
CommentRows(v) ==
    Cardinality({c \in CommentIds : comments[c].exists /\ comments[c].vlog = v})

AddCommentValidation ==
    [][\A p \in Procs :
         (Leaves(p, "idle") /\ call'[p].op = "addComment")
         => IF \/ call'[p].t.len = 0
               \/ call'[p].t.blank
               \/ call'[p].t.len > MaxCommentLength
            THEN /\ pc'[p] = "done"
                 /\ res'[p].err = "ValidationError"
                 /\ comments' = comments
                 /\ vlogs' = vlogs
            ELSE /\ pc'[p] = "cInc"
                 /\ comments'[loc'[p].comment].exists
                 /\ ~comments[loc'[p].comment].exists]_vars

\* A text of 501 was rejected and one of 500 has its row.
AddCommentValidationWitness ==
    \E p, q \in Procs :
        /\ call[p].op = "addComment" /\ pc[p] = "done"
        /\ res[p].err = "ValidationError"
        /\ call[p].t.len = MaxCommentLength + 1
        /\ call[q].op = "addComment" /\ pc[q] = "cInc"
        /\ call[q].t.len = MaxCommentLength
        /\ comments[loc[q].comment].exists

\* C24: at every step commentCount is at most the number of rows of the
\* vlog, and an addComment that completes has created one row and leaves
\* the commentCount of the content it names one higher.
AddCommentOrdering ==
    [][/\ \A v \in Vlogs : vlogs'[v].commentCount <= CommentRows(v)'
       /\ \A p \in Procs :
            (pc[p] = "cInc" /\ pc'[p] = "done" /\ res'[p].err = "ok")
            => /\ comments[loc[p].comment].exists
               /\ comments[loc[p].comment].vlog = call[p].v
               /\ vlogs'[call[p].v].commentCount =
                     vlogs[call[p].v].commentCount + 1]_vars

\* C25: an error raised by a store step of a handler reaches the caller as
\* that same error; in particular recordView never turns a durable-store
\* failure into a result.
ErrorsPropagate ==
    \A p \in Procs :
        (pc[p] = "done" /\ res[p].raised # "none")
            => res[p].err = res[p].raised

\* C26: a queueEmail call that finds the queue not ready (or absent), or
\* whose emailQueue.add fails, goes to the synchronous sender without adding
\* a job; a synchronous send that succeeds sends the call's own email data
\* and makes the call resolve with the sender's email id and fallback true.
EmailFallback ==
    [][\A p \in Procs :
         /\ (/\ Leaves(p, "idle") /\ call'[p].op = "queueEmail"
             /\ (~mail.ready \/ mail.queue = "null"))
            => pc'[p] = "qSync" /\ mail' = mail
         /\ (pc[p] = "qAdd" /\ pc'[p] # "qAdd" /\ mail'.jobs = mail.jobs)
            => pc'[p] = "qSync" /\ mail' = mail
         /\ (pc[p] = "qSync" /\ pc'[p] = "done" /\ mail'.sent # mail.sent)
            => /\ mail'.sent = Append(mail.sent,
                     [id |-> res'[p].emailId, data |-> call[p].emailData])
               /\ mail'.jobs = mail.jobs
               /\ res'[p].err = "ok"
               /\ res'[p].fallback /\ ~res'[p].queued]_vars

\* A call resolved through the fallback while the readiness check had not
\* settled, and its email is the one the sender sent.
EmailFallbackWitness ==
    \E p \in Procs :
        /\ call[p].op = "queueEmail" /\ pc[p] = "done"
        /\ res[p].err = "ok" /\ res[p].fallback
        /\ mail.check = "pending"
        /\ mail.sent = <<[id |-> res[p].emailId, data |-> call[p].emailData]>>

\* C27: a queueEmail call that finds the queue ready awaits emailQueue.add
\* and sends nothing; when the add succeeds, the call has added exactly one
\* job, holding its data, priority and attempts, returns that job's id with
\* queued true, and the synchronous sender was not called.
EmailQueued ==
    [][\A p \in Procs :
         /\ (/\ Leaves(p, "idle") /\ call'[p].op = "queueEmail"
             /\ mail.ready /\ mail.queue = "ok")
            => pc'[p] = "qAdd" /\ mail' = mail
         /\ (pc[p] = "qAdd" /\ pc'[p] = "done")
            => /\ mail'.jobs = Append(mail.jobs,
                     [id |-> res'[p].jobId, data |-> call[p].emailData,
                      priority |-> call[p].priority,
                      attempts |-> IF call[p].emailData.critical THEN 5 ELSE 3])
               /\ res'[p].jobId = Len(mail'.jobs)
               /\ mail'.sent = mail.sent
               /\ res'[p].err = "ok"
               /\ res'[p].queued /\ ~res'[p].fallback]_vars

\* A call returned queued with the id of the only job, and nothing was sent
\* synchronously.
EmailQueuedWitness ==
    \E p \in Procs :
        /\ call[p].op = "queueEmail" /\ pc[p] = "done"
        /\ res[p].queued /\ res[p].jobId = 1
        /\ Len(mail.jobs) = 1 /\ mail.jobs[1].data = call[p].emailData
        /\ mail.sent = <<>>

\* C28: of two concurrent recordView calls of one viewer on one existing
\* vlog, where one call set the dedup key and the other found it set, the
\* first has incremented the view count exactly once and returns incremented
\* true, and the other has not incremented and returns incremented false.
ConcurrentViewDedup ==
    \A p, q \in Procs :
        (/\ p # q /\ IsView(p) /\ IsView(q)
         /\ call[p].v = call[q].v /\ call[p].u = call[q].u
         /\ vlogs[call[p].v].exists
         /\ loc[p].wasSet = "OK" /\ loc[q].wasSet = "null"
         /\ pc[p] = "done" /\ pc[q] = "done"
         /\ res[p].err = "ok" /\ res[q].err = "ok")
            => /\ loc[p].incs + loc[q].incs = 1
               /\ res[p].incremented
               /\ ~res[q].incremented

\* C29: a recordView call returns degraded true exactly when its redis call
\* failed, and no call increments the view count more than once.
DegradedOnlyOnRedisFailure ==
    \A p \in Procs :
        /\ IsView(p) => loc[p].incs <= 1
        /\ (IsView(p) /\ pc[p] = "done" /\ res[p].err = "ok")
              => (res[p].degraded <=> loc[p].wasSet = "error")

\* C30: the isLiked and isDisliked flags a toggle returns (computed from its
\* kind and from the edges it read) equal the existence of the user's like
\* and dislike edges in the state its commit produces, and the likeCount and
\* dislikeCount it returns are the counters in the store at its re-read
\* after the commit.
ToggleResultMatchesCommit ==
    [][\A p \in Procs :
         LET v == call[p].v
             u == call[p].u
             isLiked == call[p].k = "like" /\ ~loc[p].existingLike
             isDisliked == call[p].k = "dislike" /\ ~loc[p].existingDislike
         IN  /\ (IsToggle(p) /\ Committing(p))
                => /\ isLiked <=> (likes'[<<v, u, "like">>] > 0)
                   /\ isDisliked <=> (likes'[<<v, u, "dislike">>] > 0)
             /\ (/\ IsToggle(p) /\ pc[p] = "tReread" /\ pc'[p] = "done"
                 /\ res'[p].err = "ok")
                => /\ res'[p].isLiked = isLiked
                   /\ res'[p].isDisliked = isDisliked
                   /\ res'[p].likeCount = vlogs[v].likeCount
                   /\ res'[p].dislikeCount = vlogs[v].dislikeCount]_vars

\* A toggleLike returned isLiked with likeCount 2 while the other request,
\* a toggleLike of the other user, has committed and not yet returned: one
\* of the two likes was not counted inside the transaction of the call.
ToggleResultWitness ==
    \E p, q \in Procs :
        /\ p # q /\ IsToggle(p) /\ IsToggle(q)
        /\ call[p].v = call[q].v /\ call[p].u # call[q].u
        /\ pc[p] = "done" /\ res[p].err = "ok"
        /\ res[p].isLiked /\ ~res[p].isDisliked /\ res[p].likeCount = 2
        /\ HasEdge(call[p].v, call[p].u, "like")
        /\ pc[q] = "tReread" /\ call[q].k = "like" /\ ~loc[q].existingLike

\* Like and dislike exchanged in the Like collection, in a vlog document and
\* in a toggle result.
SwapEdges(ls) == [e \in DOMAIN ls |-> ls[<<e[1], e[2], Opposite(e[3])>>]]
SwapCounters(doc) ==
    [doc EXCEPT !.likeCount = doc.dislikeCount, !.dislikeCount = doc.likeCount]
SwapResult(r) ==
    [r EXCEPT !.likeCount = r.dislikeCount, !.dislikeCount = r.likeCount,
              !.isLiked = r.isDisliked, !.isDisliked = r.isLiked]

\* C31: toggleDislike is the mirror of toggleLike: the store a toggleDislike
\* commits is the store toggleLike would commit from the swapped state (read
\* edges included), swapped back, and the result it returns is the swapped
\* result of that toggleLike.
ToggleMirror ==
    [][\A p \in Procs :
         LET v == call[p].v
             u == call[p].u
             own == loc[p].existingDislike
             opp == loc[p].existingLike
         IN  (call[p].op = "toggleDislike")
             => /\ Committing(p)
                   => /\ likes' = SwapEdges(
                            EdgeUpdate(SwapEdges(likes), "like", v, u, own, opp))
                      /\ loc[p].snapVlog
                         => vlogs'[v] = SwapCounters(
                              ApplyInc(SwapCounters(vlogs[v]),
                                       VlogUpdate("like", own, opp)))
                      /\ \A w \in VlogIds \ {v} : vlogs'[w] = vlogs[w]
                /\ (pc[p] = "tReread" /\ pc'[p] = "done" /\ res'[p].err = "ok")
                   => res'[p] = SwapResult(
                        [NoRes EXCEPT
                           !.err = "ok",
                           !.likeCount = SwapCounters(vlogs[v]).likeCount,
                           !.dislikeCount = SwapCounters(vlogs[v]).dislikeCount,
                           !.isLiked = ~own,
                           !.isDisliked = FALSE])]_vars

\* A toggleDislike of a user who held a like returned, and a toggleDislike
\* of a user who held a dislike returned: both branches were mirrored.
ToggleMirrorWitness ==
    \E p, q \in Procs :
        /\ call[p].op = "toggleDislike" /\ pc[p] = "done" /\ res[p].err = "ok"
        /\ loc[p].existingLike /\ res[p].isDisliked
        /\ call[q].op = "toggleDislike" /\ pc[q] = "done" /\ res[q].err = "ok"
        /\ loc[q].existingDislike /\ ~res[q].isDisliked

\* C32: toggles on different (vlog, user) pairs are independent: none of
\* them is aborted because of another, a finished toggle finds its pair's
\* edges as it returned them, and the counters equal the edge counts.
IndependentPairs ==
    /\ \A p \in Procs : res[p].err # "WriteConflict"
    /\ \A p \in Procs :
         (IsToggle(p) /\ pc[p] = "done" /\ res[p].err = "ok")
         => /\ HasEdge(call[p].v, call[p].u, "like") = res[p].isLiked
            /\ HasEdge(call[p].v, call[p].u, "dislike") = res[p].isDisliked
    /\ \A v \in Vlogs, k \in Kinds :
         vlogs[v][IF k = "like" THEN "likeCount" ELSE "dislikeCount"] = EdgeCount(v, k)

\* C33: from a state where A does not follow B, a successful followUser(A, B)
\* followed by a successful unfollowUser(A, B) restores every user's
\* following and followers sets, A's and B's among them, and both counts of
\* every user.
FollowRoundTrip ==
    (seq.on /\ seq.n = 2 /\ pc[1] = "idle")
        => \A u \in UserIds :
             /\ users[u].following = seq.users[u].following
             /\ users[u].followers = seq.users[u].followers
             /\ followingCount(u) = Cardinality(seq.users[u].following)
             /\ followerCount(u) = Cardinality(seq.users[u].followers)

\* The round trip is over, B has a follower other than A and A follows
\* somebody other than B, while the follow had put A among B's followers.
FollowRoundTripWitness ==
    /\ seq.on /\ seq.n = 2 /\ pc[1] = "idle"
    /\ users[seq.userId].followers # {}
    /\ users[seq.u].following # {}
    /\ seq.u \notin users[seq.userId].followers

\* C34: on every path, a recordView call has added at most 1 to the view
\* count of its vlog.
ViewCountedAtMostOnce ==
    \A p \in Procs : IsView(p) => loc[p].incs \in {0, 1}

\* C35: a recordView call on an existing vlog that set the dedup key and
\* has finished, with a result or with an error, has incremented the view
\* count.
DedupKeyImpliesCount ==
    \A p \in Procs :
        (/\ IsView(p) /\ pc[p] = "done"
         /\ loc[p].wasSet = "OK"
         /\ vlogs[call[p].v].exists)
            => loc[p].incs >= 1

\* C36: a transaction that a toggle or follow handler has started is
\* eventually committed or aborted, a committed one is never aborted and an
\* aborted one never committed, and the session of every request that opened
\* one is ended, after which the request has none left to end.
TransactionsSettle ==
    /\ \A p \in Procs :
         (txn[p].state = "active") ~> (txn[p].state \in {"committed", "aborted"})
    /\ \A p \in Procs : (txn[p].state # "none") ~> (txn[p] = NoTxn)
    /\ [][\A p \in Procs :
            /\ txn[p].state = "committed" => txn'[p].state \in {"committed", "none"}
            /\ txn[p].state = "aborted" => txn'[p].state \in {"aborted", "none"}
            /\ txn[p].state = "active" => txn'[p].state # "none"]_vars

\* The re-read after a commit failed: the transaction stays committed, the
\* caller gets the error of the refused abort, and the request is about to
\* end its session.
TransactionsSettleWitness ==
    \E p \in Procs :
        /\ pc[p] = "done"
        /\ txn[p].state = "committed"
        /\ res[p].err = "MongoTransactionError"
        /\ res[p].raised = "StoreError"

\* C37: a step of toggleLike(C, U) or toggleDislike(C, U) changes nothing in
\* the store but, at its commit, the like and dislike edges of (C, U) and
\* the likeCount and dislikeCount of C: the commentCount and views of C, the
\* other vlogs, the edges of other pairs, the comments, the dedup keys and
\* the users stay as they are.
ToggleFrame ==
    [][\A p \in Procs :
         (pc'[p] # pc[p] /\ (IsToggle(p) \/ call'[p].op \in {"toggleLike", "toggleDislike"}))
         => LET v == call'[p].v
                u == call'[p].u
            IN  /\ \A e \in DOMAIN likes :
                     (e[1] # v \/ e[2] # u) => likes'[e] = likes[e]
                /\ \A w \in VlogIds \ {v} : vlogs'[w] = vlogs[w]
                /\ vlogs'[v].commentCount = vlogs[v].commentCount
                /\ vlogs'[v].views = vlogs[v].views
                /\ vlogs'[v].exists = vlogs[v].exists
                /\ UNCHANGED <<comments, redisKeys, users>>
                /\ ~Committing(p) => UNCHANGED <<likes, vlogs>>]_vars

\* A toggleLike returned a likeCount of 1 on a vlog that has a comment
\* counted and a view counted.
ToggleFrameWitness ==
    \E p \in Procs :
        /\ IsToggle(p) /\ pc[p] = "done" /\ res[p].err = "ok"
        /\ res[p].isLiked /\ res[p].likeCount = 1
        /\ vlogs[call[p].v].commentCount = 1
        /\ vlogs[call[p].v].views = 1

\* C38: no vlog is ever twice in a user's bookmarks, and a bookmark that is
\* there stays there while the only removals are removals of another vlog.
BookmarksSafe ==
    [][\A u \in UserIds :
         /\ \A i, j \in 1..Len(users'[u].bookmarks) :
              users'[u].bookmarks[i] = users'[u].bookmarks[j] => i = j
         /\ InArray(users[u].bookmarks, KeptVlog)
            => InArray(users'[u].bookmarks, KeptVlog)]_vars
====
